---- MODULE Spec2Model ----
(***************************************************************************)
(* HCI raw-socket transport of bluez-hci: the kernel event filter and its  *)
(* get/set path, the little-endian integer codec, the event framer and     *)
(* the send_req command/response exchange (src/src/socket.rs, io.rs,       *)
(* filter.rs).  The kernel and the controller are the environment: every   *)
(* system call may succeed or fail, and a receive may deliver any packet   *)
(* of the bounded packet universe, truncated at any length.                *)
(***************************************************************************)
EXTENDS Integers, Sequences, FiniteSets, TLC

VARIABLES
    pc,             \* position of the caller: idle, or a step inside send_req
    kfilter,        \* the filter held by the kernel for this socket
    ogf, ocf,       \* send_req arguments
    command,        \* send_req argument: parameter bytes
    timeout,        \* send_req's `mut timeout` (remaining)
    opcode,         \* send_req local `opcode`
    old_filter,     \* send_req local `old_filter`
    attempt,        \* iterations of `for _ in 0..10` completed
    retries,        \* poll() calls of the current readiness wait that were interrupted
    sent,           \* segments handed to send_vectored by send_cmd (<<>> before)
    pkt,            \* bytes delivered by the last receive
    response,       \* outcome of Event::read_from on pkt
    result,         \* value of the polling closure (`result`)
    outcome,        \* how send_req ended
    nwaits,         \* calls of poll_with_timeout in this send_req
    nrecvs,         \* receive calls in this send_req
    installed,      \* set_filter(&new_filter) returned Ok in this send_req
    restore,        \* the set_filter(&old_filter) of this send_req: none, ok or err
    polled,         \* the last poll() of the current wait: <<n>>, or <<-1, errno>>
    filter_before,  \* kernel filter when send_req was entered
    cause,          \* which step produced `result` / `outcome`
    last_set,       \* argument of the last stand-alone set_filter that returned Ok
    last_get,       \* value returned by the last stand-alone get_filter since then
    timeout0,       \* send_req argument `timeout` as passed by the caller
    flt,            \* an HciFilter value in the caller's memory
    fop,            \* what the last HciFilter method applied to flt returned
    pk,             \* the last cmd_opcode_pack call: its arguments and its value
    cv,             \* the last integer written and read back: value, bytes, result
    sockopt         \* option value of the last getsockopt / setsockopt built for flt

\* the socket and the send_req in progress
sockvars == <<pc, kfilter, ogf, ocf, command, timeout0, timeout, opcode, old_filter,
              attempt, retries, sent, pkt, response, result, outcome, nwaits, nrecvs,
              installed, restore, polled, filter_before, cause, last_set, last_get>>

\* values the pure functions are applied to
pure == <<flt, fop, pk, cv, sockopt>>

vars == <<sockvars, pure>>

-----------------------------------------------------------------------------
(* Bounds of the model *)

MaxParamLen == 2
MaxPayloadLen == 1
MaxTimeout == 25
MaxPollRetries == 1
MaxBits == 1

-----------------------------------------------------------------------------
(* Program constants *)

HCI_MAX_EVENT_SIZE == 260
HCI_COMMAND_PKT == 1
HCI_EVENT_PKT == 4
EVT_CMD_COMPLETE == 14
EVT_CMD_STATUS == 15
MaxAttempts == 10
TimeoutStep == 10
OGF_HOST_CTL == 3
OCF_WRITE_CLASS_OF_DEV == 36

\* The compilation target: to_le() is the identity on a little-endian host
\* and a byte swap on a big-endian one.
HostBigEndian == FALSE

-----------------------------------------------------------------------------
(* Fixed-width integer arithmetic *)

Pow2(n) == 2 ^ n

Min(a, b) == IF a <= b THEN a ELSE b

RECURSIVE BitAnd(_, _)
BitAnd(a, b) ==
    IF a = 0 \/ b = 0 THEN 0
    ELSE (a % 2) * (b % 2) + 2 * BitAnd(a \div 2, b \div 2)

RECURSIVE BitOr(_, _)
BitOr(a, b) ==
    IF a = 0 THEN b
    ELSE IF b = 0 THEN a
    ELSE (IF a % 2 = 1 \/ b % 2 = 1 THEN 1 ELSE 0) + 2 * BitOr(a \div 2, b \div 2)

\* u16 `<<`: bits shifted out of the 16-bit word are lost
Shl16(x, n) == (x * Pow2(n)) % Pow2(16)

swap_bytes16(x) == (x % 256) * 256 + (x \div 256)

\* u16::to_le
to_le(x) == IF HostBigEndian THEN swap_bytes16(x) ELSE x

\* the bytes of v most significant first
to_be_bytes(v, width) == [i \in 1..width |-> (v \div Pow2(8 * (width - i))) % 256]

\* <int>::to_le_bytes, width in bytes
to_le_bytes(v, width) == [i \in 1..width |-> (v \div Pow2(8 * (i - 1))) % 256]

\* <int>::from_le_bytes
RECURSIVE from_le_bytes(_)
from_le_bytes(bytes) ==
    IF bytes = <<>> THEN 0
    ELSE Head(bytes) + 256 * from_le_bytes(Tail(bytes))

-----------------------------------------------------------------------------
(* io.rs: the codec *)

\* read_from_int with the bytes taken most significant first
read_from_int_be(buf, width) ==
    LET n == Min(Len(buf), width)
        bytes == [i \in 1..width |-> IF width + 1 - i <= n THEN buf[width + 1 - i] ELSE 0]
    IN [val  |-> from_le_bytes(bytes),
        size |-> n,
        rest |-> SubSeq(buf, n + 1, Len(buf))]

\* impl Read for &[u8]: copies min(len, width) bytes to the front of a zeroed
\* array and advances the slice; impl_read_from_int decodes the whole array.
read_from_int(buf, width) ==
    LET n == Min(Len(buf), width)
        bytes == [i \in 1..width |-> IF i <= n THEN buf[i] ELSE 0]
    IN [val  |-> from_le_bytes(bytes),
        size |-> n,
        rest |-> SubSeq(buf, n + 1, Len(buf))]

\* impl_write_as_int: Vec<u8> as the sink takes every byte
write_to_int(v, width) == to_le_bytes(v, width)

\* A u32 or u64 is held as its 16-bit limbs, least significant first (the
\* value is the sum of limbs[k] * 65536^(k-1)): its little-endian bytes are
\* those of the limbs in that order.
write_to_wide(limbs) ==
    [i \in 1..(2 * Len(limbs)) |-> to_le_bytes(limbs[(i + 1) \div 2], 2)[((i - 1) % 2) + 1]]

read_from_wide(buf, width) ==
    LET n == Min(Len(buf), width)
        bytes == [i \in 1..width |-> IF i <= n THEN buf[i] ELSE 0]
    IN [val  |-> [k \in 1..(width \div 2) |-> from_le_bytes(<<bytes[2 * k - 1], bytes[2 * k]>>)],
        size |-> n,
        rest |-> SubSeq(buf, n + 1, Len(buf))]

\* WriteTo / ReadFrom for u8, u16, u32, u64: width in bytes, the value as
\* <<v>> for u8 and u16 and as limbs for u32 and u64
write_to(width, value) ==
    IF width <= 2 THEN write_to_int(value[1], width) ELSE write_to_wide(value)

read_from(buf, width) ==
    IF width <= 2
    THEN [val |-> <<read_from_int(buf, width).val>>, size |-> read_from_int(buf, width).size]
    ELSE [val |-> read_from_wide(buf, width).val, size |-> read_from_wide(buf, width).size]

-----------------------------------------------------------------------------
(* filter.rs: HciFilter *)

\* A mask is held as the set of its one-bits (bit t of the word <-> t in the
\* set): `|= 1 << t` adds t, and the 64-bit word never has to be a number.
HciFilter_default == [type_mask |-> {}, event_mask |-> {}, opcode |-> 0]

\* #[repr(C)] struct HciFilter: the fields in declaration order with their
\* sizes and alignments; u64 is 8-aligned on the 64-bit targets and 4-aligned
\* on 32-bit x86
U64Aligns == {4, 8}
HciFilter_fields(u64_align) ==
    << [name |-> "type_mask",  size |-> 4, align |-> 4],
       [name |-> "event_mask", size |-> 8, align |-> u64_align],
       [name |-> "opcode",     size |-> 2, align |-> 2] >>

\* the least multiple of align that is not below n
RoundUp(n, align) == ((n + align - 1) \div align) * align

\* repr(C): each field at the next offset that satisfies its alignment
RECURSIVE offset_of(_, _)
offset_of(fields, k) ==
    IF k = 1 THEN 0
    ELSE RoundUp(offset_of(fields, k - 1) + fields[k - 1].size, fields[k].align)

RECURSIVE align_of(_)
align_of(fields) ==
    IF fields = <<>> THEN 1
    ELSE LET rest == align_of(Tail(fields))
         IN IF Head(fields).align > rest THEN Head(fields).align ELSE rest

\* repr(C): the end of the last field rounded up to the structure's alignment
size_of(fields) ==
    RoundUp(offset_of(fields, Len(fields)) + fields[Len(fields)].size, align_of(fields))

get_type_mask(f) == f.type_mask
set_type_mask(f, type_mask) == [f EXCEPT !.type_mask = type_mask]
clear_type_mask(f) == [f EXCEPT !.type_mask = {}]

\* set_type with the range test written `t <= 32`
set_type_le32(f, t) ==
    IF t <= 32
    THEN [ok |-> TRUE,  filter |-> [f EXCEPT !.type_mask = f.type_mask \cup {t}]]
    ELSE [ok |-> FALSE, filter |-> f]

set_type(f, t) ==
    IF t < 32
    THEN [ok |-> TRUE,  filter |-> [f EXCEPT !.type_mask = f.type_mask \cup {t}]]
    ELSE [ok |-> FALSE, filter |-> f]

\* unset_type without the complement: `&= 1 << t`
unset_type_no_complement(f, t) ==
    IF t < 32
    THEN [ok |-> TRUE,  filter |-> [f EXCEPT !.type_mask = f.type_mask \cap {t}]]
    ELSE [ok |-> FALSE, filter |-> f]

\* `&= !(1 << t)` removes t from the one-bits
unset_type(f, t) ==
    IF t < 32
    THEN [ok |-> TRUE,  filter |-> [f EXCEPT !.type_mask = f.type_mask \ {t}]]
    ELSE [ok |-> FALSE, filter |-> f]

get_event_mask(f) == f.event_mask
set_event_mask(f, event_mask) == [f EXCEPT !.event_mask = event_mask]
clear_event_mask(f) == [f EXCEPT !.event_mask = {}]

set_event(f, e) ==
    IF e < 64
    THEN [ok |-> TRUE,  filter |-> [f EXCEPT !.event_mask = f.event_mask \cup {e}]]
    ELSE [ok |-> FALSE, filter |-> f]

unset_event(f, e) ==
    IF e < 64
    THEN [ok |-> TRUE,  filter |-> [f EXCEPT !.event_mask = f.event_mask \ {e}]]
    ELSE [ok |-> FALSE, filter |-> f]

get_opcode(f) == f.opcode

\* byte i (0 the least significant) of the word whose one-bits are `bits`
RECURSIVE mask_byte(_, _)
mask_byte(bits, i) ==
    LET here == {b \in bits : b \div 8 = i}
    IN IF here = {} THEN 0
       ELSE LET b == CHOOSE x \in here : TRUE
            IN Pow2(b % 8) + mask_byte(bits \ {b}, i)

\* the bytes of one field in memory (native order of a little-endian target)
field_bytes(f, name) ==
    IF name = "type_mask" THEN [i \in 1..4 |-> mask_byte(f.type_mask, i - 1)]
    ELSE IF name = "event_mask" THEN [i \in 1..8 |-> mask_byte(f.event_mask, i - 1)]
    ELSE to_le_bytes(f.opcode, 2)

\* the bytes of the structure in memory; Padding where no field lies
Padding == -1
memory_image(f, fields) ==
    [i \in 1..size_of(fields) |->
        LET at == {k \in 1..Len(fields) :
                      /\ offset_of(fields, k) < i
                      /\ i <= offset_of(fields, k) + fields[k].size}
        IN IF at = {} THEN Padding
           ELSE LET k == CHOOSE x \in at : TRUE
                IN field_bytes(f, fields[k].name)[i - offset_of(fields, k)]]
set_opcode(f, op) == [f EXCEPT !.opcode = op]

-----------------------------------------------------------------------------
(* socket.rs: opcode packing and command framing *)

\* cmd_opcode_pack without the `& 0x03ff`
cmd_opcode_pack_unmasked(g, c) == BitOr(c, Shl16(g, 10))

cmd_opcode_pack(g, c) == BitOr(BitAnd(c, 1023), Shl16(g, 10))

\* CommandHeader_bytes with the two fields written in the other order
CommandHeader_bytes_plen_first(hdr) ==
    to_le_bytes(hdr.plen, 1) \o to_le_bytes(hdr.opcode, 2)

\* impl WriteTo for &CommandHeader, through WriteTo::bytes
CommandHeader_bytes(hdr) == write_to_int(hdr.opcode, 2) \o write_to_int(hdr.plen, 1)

\* Socket::send_cmd up to the send_vectored call: the segments of the write,
\* or a panic when the parameter length does not fit the u8 of the header.
send_cmd(g, c, param) ==
    IF Len(param) > 255
    THEN [kind |-> "Panic", bufs |-> <<>>]
    ELSE LET cmd_type == <<HCI_COMMAND_PKT>>
             cmd_hdr == CommandHeader_bytes(
                            [opcode |-> to_le(cmd_opcode_pack(g, c)), plen |-> Len(param)])
         IN [kind |-> "Ok",
             bufs |-> IF Len(param) > 0
                      THEN <<cmd_type, cmd_hdr, param>>
                      ELSE <<cmd_type, cmd_hdr>>]

-----------------------------------------------------------------------------
(* socket.rs: the event framer *)

\* impl ReadFrom for EventHeader: two u8 reads; the sizes are summed, never
\* compared with the width.
EventHeader_read_from(buf) ==
    LET ev == read_from_int(buf, 1)
        pl == read_from_int(ev.rest, 1)
    IN [event |-> ev.val, plen |-> pl.val, size |-> ev.size + pl.size, rest |-> pl.rest]

NoResponse ==
    [kind |-> "None", event |-> 0, plen |-> 0, tag |-> "None",
     status |-> 0, ncmd |-> 0, opcode |-> 0, data |-> <<>>, size |-> 0]

\* impl ReadFrom for Event, after r.read(&mut buf) delivered the bytes p:
\* buf[..size], then &buf_r[1..] (which panics on an empty slice), the header,
\* and the body selected by header.event.  No read of a slice returns Err.
Event_read_from(p) ==
    LET size == Min(Len(p), HCI_MAX_EVENT_SIZE)
        buf_r == SubSeq(p, 1, size)
    IN IF Len(buf_r) < 1
       THEN [NoResponse EXCEPT !.kind = "Panic"]
       ELSE LET hd == EventHeader_read_from(Tail(buf_r))
            IN IF hd.event = 14
               THEN LET nc == read_from_int(hd.rest, 1)
                        op == read_from_int(nc.rest, 2)
                    IN [kind |-> "Ok", event |-> hd.event, plen |-> hd.plen,
                        tag |-> "CmdComplete", status |-> 0, ncmd |-> nc.val,
                        opcode |-> op.val, data |-> op.rest, size |-> size]
               ELSE IF hd.event = 15
               THEN LET st == read_from_int(hd.rest, 1)
                        nc == read_from_int(st.rest, 1)
                        op == read_from_int(nc.rest, 2)
                    IN [kind |-> "Ok", event |-> hd.event, plen |-> hd.plen,
                        tag |-> "CmdStatus", status |-> st.val, ncmd |-> nc.val,
                        opcode |-> op.val, data |-> op.rest, size |-> size]
               ELSE [kind |-> "Ok", event |-> hd.event, plen |-> hd.plen,
                     tag |-> "Unsupported", status |-> 0, ncmd |-> 0,
                     opcode |-> 0, data |-> hd.rest, size |-> size]

-----------------------------------------------------------------------------
(* socket.rs: results, the readiness wait and the response match *)

NoResult == [kind |-> "None", errno |-> "", data |-> <<>>]
Ok(d) == [kind |-> "Ok", errno |-> "", data |-> d]
Err(e) == [kind |-> "Err", errno |-> e, data |-> <<>>]
Panicked == [kind |-> "Panic", errno |-> "", data |-> <<>>]

\* poll_with_timeout without the `n == 0` branch: an elapsed wait counts as ready
poll_with_timeout_ignores_elapsed(n, e) ==
    IF n < 0
    THEN IF e \in {"EAGAIN", "EINTR"} THEN [kind |-> "Retry", errno |-> "", data |-> <<>>]
         ELSE Err(e)
    ELSE Ok(<<>>)

\* poll_with_timeout whose match hands EINTR to the caller like any other errno
poll_with_timeout_returns_eintr(n, e) ==
    IF n < 0
    THEN IF e \in {"EAGAIN"} THEN [kind |-> "Retry", errno |-> "", data |-> <<>>]
         ELSE Err(e)
    ELSE IF n = 0 THEN Err("ETIMEDOUT")
    ELSE Ok(<<>>)

\* poll_with_timeout after one poll() call that returned n with errno e:
\* "retry" is another turn of the while loop.
poll_with_timeout(n, e) ==
    IF n < 0
    THEN IF e \in {"EAGAIN", "EINTR"} THEN [kind |-> "Retry", errno |-> "", data |-> <<>>]
         ELSE Err(e)
    ELSE IF n = 0 THEN Err("ETIMEDOUT")
    ELSE Ok(<<>>)

\* match_response without the CmdStatus arm
match_response_skips_status(rsp, op) ==
    IF rsp.tag = "CmdComplete" /\ rsp.opcode = op THEN Ok(rsp.data)
    ELSE NoResult

\* the `match response.body` of send_req: the closure's return value, or
\* NoResult for the `_ => ()` arm
match_response(rsp, op) ==
    IF rsp.tag = "CmdStatus" /\ rsp.opcode = op THEN Err("EIO")
    ELSE IF rsp.tag = "CmdComplete" /\ rsp.opcode = op THEN Ok(rsp.data)
    ELSE NoResult

\* the range of `for _ in 0..10` taken one past its end
in_range_inclusive(i) == i <= MaxAttempts

\* `for _ in 0..10`: another iteration follows i completed ones
in_range(i) == i < MaxAttempts

\* the test before the readiness wait taken as `timeout != 0`
wait_needed_nonzero(t) == t /= 0

\* `if timeout > 0`: the iteration starts with a readiness wait
wait_needed(t) == t > 0

\* the timeout update without the `if timeout < 0` clamp
next_timeout_unclamped(t) == t - TimeoutStep

\* the timeout update after a readiness wait that found the socket readable
next_timeout(t) == IF t - TimeoutStep < 0 THEN 0 ELSE t - TimeoutStep

\* the filter send_req builds: the `?` after each setter cannot fire for
\* these constants, the setters are applied as written
new_filter(op) ==
    LET f1 == set_type(HciFilter_default, HCI_EVENT_PKT)
        f2 == set_event(f1.filter, EVT_CMD_STATUS)
        f3 == set_event(f2.filter, EVT_CMD_COMPLETE)
    IN [ok |-> f1.ok /\ f2.ok /\ f3.ok, filter |-> set_opcode(f3.filter, op)]

-----------------------------------------------------------------------------
(* The environment: requests, packets and system-call outcomes *)

Ogfs == {0, OGF_HOST_CTL}
Ocfs == {0, OCF_WRITE_CLASS_OF_DEV}
ReqOpcodes == {to_le(cmd_opcode_pack(g, c)) : g \in Ogfs, c \in Ocfs}

Bytes(n) == [i \in 1..n |-> (7 * i) % 256]
\* short parameter blocks, and one that is a byte too long for the header's u8
Params == {<<>>, Bytes(MaxParamLen), Bytes(256)}
Timeouts == {-1, 0, MaxTimeout}

Prefixes == {0, HCI_EVENT_PKT}
PktOpcodes == {0, cmd_opcode_pack(OGF_HOST_CTL, OCF_WRITE_CLASS_OF_DEV)}

FullPackets ==
    {<<x, 14, 3 + n, 1>> \o to_le_bytes(op, 2) \o Bytes(n) :
        x \in Prefixes, op \in PktOpcodes, n \in 0..MaxPayloadLen}
    \cup {<<x, 15, 4, 0, 1>> \o to_le_bytes(op, 2) : x \in Prefixes, op \in PktOpcodes}
    \cup {<<x, 5, n>> \o Bytes(n) : x \in Prefixes, n \in 0..MaxPayloadLen}

\* a receive may return any leading part of a packet, or nothing
Packets == UNION {{SubSeq(f, 1, n) : n \in 0..Len(f)} : f \in FullPackets}

SockoptErrnos == {"EBADF"}
SendErrnos == {"ENODEV"}
RecvErrnos == {"EAGAIN", "EBADF"}
PollErrnos == {"EAGAIN", "EINTR", "ENOMEM"}

\* the filters a caller pushes with set_filter outside send_req
UserFilters ==
    {HciFilter_default, [type_mask |-> {HCI_EVENT_PKT}, event_mask |-> {5, 14}, opcode |-> 0]}

\* what the bytes at a wrong address may decode to
StackGarbage == {[type_mask |-> {0, 3}, event_mask |-> {2, 40}, opcode |-> 32764]}

NoFilter == [type_mask |-> {}, event_mask |-> {}, opcode |-> -1]

-----------------------------------------------------------------------------
(* socket.rs: Socket::get_filter and Socket::set_filter *)

\* get_filter passes addr_of_mut!(filter) of its local HciFilter: the kernel
\* writes its filter into the structure that is returned.
get_filter(k) == k

\* set_filter passes addr_of!(filter) where `filter` is the parameter of type
\* &HciFilter: the address of the reference, not of the structure it refers
\* to.  The kernel copies filter_size bytes from there: the pointer value and
\* the stack bytes after it.  What they decode to is not determined by the
\* program: the kernel may end up with f or with something else.
set_filter(f) == {f} \cup StackGarbage

\* nothing applied yet to flt, to the packing function, to the codec
NoOp == "unit"
NoPack == [group |-> 0, feature |-> 0, opcode |-> -1]
NoCodec == [width |-> 0, value |-> <<>>, bytes |-> <<>>, back |-> <<>>, size |-> -1]
NoSockopt == [call |-> "none", optlen |-> 0, offsets |-> <<>>, image |-> <<>>]

-----------------------------------------------------------------------------
(* State machine *)

SockInit ==
    /\ pc = "idle"
    /\ kfilter = HciFilter_default
    /\ ogf = 0 /\ ocf = 0 /\ command = <<>> /\ timeout0 = 0 /\ timeout = 0 /\ opcode = 0
    /\ old_filter = NoFilter
    /\ attempt = 0 /\ retries = 0
    /\ sent = <<>> /\ pkt = <<>> /\ response = NoResponse
    /\ result = NoResult /\ outcome = NoResult
    /\ nwaits = 0 /\ nrecvs = 0
    /\ installed = FALSE /\ restore = "none" /\ polled = <<>>
    /\ filter_before = NoFilter
    /\ cause = "none"
    /\ last_set = NoFilter /\ last_get = NoFilter

Init ==
    /\ SockInit
    /\ flt = HciFilter_default /\ fop = NoOp
    /\ pk = NoPack
    /\ cv = NoCodec
    /\ sockopt = NoSockopt

locals == <<ogf, ocf, command, timeout0, timeout, opcode, old_filter, attempt, retries, sent,
            pkt, response, result, outcome, nwaits, nrecvs, installed,
            restore, polled, filter_before, cause>>

\* a caller's set_filter(&f) that returns Ok
SetFilterOk(f) ==
    /\ pc = "idle"
    /\ kfilter' \in set_filter(f)
    /\ last_set' = f
    /\ last_get' = NoFilter
    /\ UNCHANGED <<pc, locals, pure>>

\* a caller's set_filter(&f) whose setsockopt returns -1
SetFilterErr(f) ==
    /\ pc = "idle"
    /\ last_set' = NoFilter
    /\ last_get' = NoFilter
    /\ UNCHANGED <<pc, kfilter, locals, pure>>

\* a caller's get_filter() that returns Ok
GetFilterOk ==
    /\ pc = "idle"
    /\ last_get' = get_filter(kfilter)
    /\ UNCHANGED <<pc, kfilter, last_set, locals, pure>>

\* send_req is entered: socket.rs 327-329
Call(g, c, param, t) ==
    /\ pc = "idle"
    /\ pc' = "get_filter"
    /\ ogf' = g /\ ocf' = c /\ command' = param /\ timeout0' = t /\ timeout' = t
    /\ opcode' = to_le(cmd_opcode_pack(g, c))
    /\ old_filter' = NoFilter
    /\ attempt' = 0 /\ retries' = 0
    /\ sent' = <<>> /\ pkt' = <<>> /\ response' = NoResponse
    /\ result' = NoResult /\ outcome' = NoResult
    /\ nwaits' = 0 /\ nrecvs' = 0
    /\ installed' = FALSE /\ restore' = "none" /\ polled' = <<>>
    /\ filter_before' = kfilter
    /\ cause' = "none"
    /\ last_set' = NoFilter /\ last_get' = NoFilter
    /\ UNCHANGED <<kfilter, pure>>

\* `let old_filter = self.get_filter()?;` returns Ok: socket.rs 332
GetOldOk ==
    /\ pc = "get_filter"
    /\ old_filter' = get_filter(kfilter)
    /\ pc' = "set_new"
    /\ UNCHANGED <<pure, kfilter, ogf, ocf, command, timeout0, timeout, opcode, attempt, retries, sent,
                   pkt, response, result, outcome, nwaits, nrecvs, installed,
                   restore, polled, filter_before, cause, last_set, last_get>>

\* get_filter fails: `?` returns from send_req
GetOldErr(e) ==
    /\ pc = "get_filter"
    /\ outcome' = Err(e)
    /\ cause' = "get_filter"
    /\ pc' = "done"
    /\ UNCHANGED <<pure, kfilter, ogf, ocf, command, timeout0, timeout, opcode, old_filter, attempt,
                   retries, sent, pkt, response, result, nwaits, nrecvs, installed,
                   restore, polled, filter_before, last_set, last_get>>

\* the new filter is built and `self.set_filter(&new_filter)?` returns Ok:
\* socket.rs 335-340
SetNewOk ==
    /\ pc = "set_new"
    /\ new_filter(opcode).ok
    /\ kfilter' \in set_filter(new_filter(opcode).filter)
    /\ installed' = TRUE
    /\ pc' = "send"
    /\ UNCHANGED <<pure, ogf, ocf, command, timeout0, timeout, opcode, old_filter, attempt, retries,
                   sent, pkt, response, result, outcome, nwaits, nrecvs,
                   restore, polled, filter_before, cause, last_set, last_get>>

\* set_filter(&new_filter) fails: `?` returns from send_req
SetNewErr(e) ==
    /\ pc = "set_new"
    /\ outcome' = Err(e)
    /\ cause' = "set_filter"
    /\ pc' = "done"
    /\ UNCHANGED <<pure, kfilter, ogf, ocf, command, timeout0, timeout, opcode, old_filter, attempt,
                   retries, sent, pkt, response, result, nwaits, nrecvs, installed,
                   restore, polled, filter_before, last_set, last_get>>

\* `size += self.send_cmd(ogf, ocf, command)?` with send_vectored returning Ok:
\* socket.rs 343
SendOk ==
    /\ pc = "send"
    /\ send_cmd(ogf, ocf, command).kind = "Ok"
    /\ sent' = send_cmd(ogf, ocf, command).bufs
    /\ pc' = "loop"
    /\ UNCHANGED <<pure, kfilter, ogf, ocf, command, timeout0, timeout, opcode, old_filter, attempt,
                   retries, pkt, response, result, outcome, nwaits, nrecvs, installed,
                   restore, polled, filter_before, cause, last_set, last_get>>

\* send_vectored fails: `?` returns from send_req; line 380 is not reached
SendErr(e) ==
    /\ pc = "send"
    /\ send_cmd(ogf, ocf, command).kind = "Ok"
    /\ sent' = send_cmd(ogf, ocf, command).bufs
    /\ outcome' = Err(e)
    /\ cause' = "send"
    /\ pc' = "done"
    /\ UNCHANGED <<pure, kfilter, ogf, ocf, command, timeout0, timeout, opcode, old_filter, attempt,
                   retries, pkt, response, result, nwaits, nrecvs, installed,
                   restore, polled, filter_before, last_set, last_get>>

\* the parameter length does not fit a u8: try_into().unwrap() panics
SendPanic ==
    /\ pc = "send"
    /\ send_cmd(ogf, ocf, command).kind = "Panic"
    /\ outcome' = Panicked
    /\ cause' = "send"
    /\ pc' = "done"
    /\ UNCHANGED <<pure, kfilter, ogf, ocf, command, timeout0, timeout, opcode, old_filter, attempt,
                   retries, sent, pkt, response, result, nwaits, nrecvs, installed,
                   restore, polled, filter_before, last_set, last_get>>

\* the head of `for _ in 0..10` with the range exhausted: socket.rs 347, 376
LoopExhausted ==
    /\ pc = "loop"
    /\ ~in_range(attempt)
    /\ result' = Err("ETIMEDOUT")
    /\ cause' = "exhausted"
    /\ pc' = "restore"
    /\ pkt' = <<>> /\ response' = NoResponse
    /\ UNCHANGED <<pure, kfilter, ogf, ocf, command, timeout0, timeout, opcode, old_filter, attempt,
                   retries, sent, outcome, nwaits, nrecvs, installed,
                   restore, polled, filter_before, last_set, last_get>>

\* an iteration starts with `timeout > 0`: poll_with_timeout is called,
\* socket.rs 350-352
LoopWait ==
    /\ pc = "loop"
    /\ in_range(attempt)
    /\ wait_needed(timeout)
    /\ nwaits' = nwaits + 1
    /\ retries' = 0
    /\ pc' = "poll"
    /\ pkt' = <<>> /\ response' = NoResponse
    /\ polled' = <<>>
    /\ UNCHANGED <<pure, kfilter, ogf, ocf, command, timeout0, timeout, opcode, old_filter, attempt,
                   sent, result, outcome, nrecvs, installed,
                   restore, filter_before, cause, last_set, last_get>>

\* an iteration starts with `timeout <= 0`: straight to the receive
LoopNoWait ==
    /\ pc = "loop"
    /\ in_range(attempt)
    /\ ~wait_needed(timeout)
    /\ pc' = "recv"
    /\ pkt' = <<>> /\ response' = NoResponse
    /\ UNCHANGED <<pure, kfilter, ogf, ocf, command, timeout0, timeout, opcode, old_filter, attempt,
                   retries, sent, result, outcome, nwaits, nrecvs,
                   installed, restore, polled, filter_before, cause, last_set, last_get>>

\* poll() returns -1 with EAGAIN or EINTR: the while loop polls again,
\* socket.rs 307-310
PollInterrupted(e) ==
    /\ pc = "poll"
    /\ retries < MaxPollRetries
    /\ poll_with_timeout(-1, e).kind = "Retry"
    /\ retries' = retries + 1
    /\ polled' = <<-1, e>>
    /\ UNCHANGED <<pure, pc, kfilter, ogf, ocf, command, timeout0, timeout, opcode, old_filter, attempt,
                   sent, pkt, response, result, outcome, nwaits, nrecvs, installed,
                   restore, filter_before, cause, last_set, last_get>>

\* poll() returns -1 with another errno, or 0: poll_with_timeout returns Err
\* and the `?` of line 352 ends the closure
PollFailed(n, e) ==
    /\ pc = "poll"
    /\ poll_with_timeout(n, e).kind = "Err"
    /\ result' = poll_with_timeout(n, e)
    /\ cause' = IF n = 0 THEN "poll_timeout" ELSE "poll_error"
    /\ pc' = "restore"
    /\ polled' = IF n < 0 THEN <<n, e>> ELSE <<n>>
    /\ UNCHANGED <<pure, kfilter, ogf, ocf, command, timeout0, timeout, opcode, old_filter, attempt,
                   retries, sent, pkt, response, outcome, nwaits, nrecvs, installed,
                   restore, filter_before, last_set, last_get>>

\* poll() returns a positive count: the timeout is stepped down, socket.rs
\* 354-357, and the receive follows
PollReady(n) ==
    /\ pc = "poll"
    /\ poll_with_timeout(n, "").kind = "Ok"
    /\ timeout' = next_timeout(timeout)
    /\ pc' = "recv"
    /\ polled' = <<n>>
    /\ UNCHANGED <<pure, kfilter, ogf, ocf, command, timeout0, opcode, old_filter, attempt, retries,
                   sent, pkt, response, result, outcome, nwaits, nrecvs, installed,
                   restore, filter_before, cause, last_set, last_get>>

\* `s.read_as::<Event>()?` whose r.read fails: socket.rs 205, 361
RecvErr(e) ==
    /\ pc = "recv"
    /\ nrecvs' = nrecvs + 1
    /\ pkt' = <<>>
    /\ response' = NoResponse
    /\ result' = Err(e)
    /\ cause' = "recv"
    /\ pc' = "restore"
    /\ UNCHANGED <<pure, kfilter, ogf, ocf, command, timeout0, timeout, opcode, old_filter, attempt,
                   retries, sent, outcome, nwaits, installed, restore, polled,
                   filter_before, last_set, last_get>>

\* `s.read_as::<Event>()?` whose r.read delivers the bytes p, then the match
\* on the body: socket.rs 361-374
Recv(p) ==
    LET rsp == Event_read_from(p)
        m == match_response(rsp, opcode)
    IN /\ pc = "recv"
       /\ nrecvs' = nrecvs + 1
       /\ pkt' = p
       /\ response' = rsp
       /\ IF rsp.kind = "Panic"
          THEN /\ outcome' = Panicked
               /\ cause' = "decode"
               /\ pc' = "done"
               /\ UNCHANGED <<result, attempt>>
          ELSE IF m.kind = "None"
          THEN /\ attempt' = attempt + 1
               /\ pc' = "loop"
               /\ UNCHANGED <<result, outcome, cause>>
          ELSE /\ result' = m
               /\ cause' = IF m.kind = "Ok" THEN "cmd_complete" ELSE "cmd_status"
               /\ pc' = "restore"
               /\ UNCHANGED <<outcome, attempt>>
       /\ UNCHANGED <<pure, kfilter, ogf, ocf, command, timeout0, timeout, opcode, old_filter, retries,
                      sent, nwaits, installed, restore, polled, filter_before,
                      last_set, last_get>>

\* `self.set_filter(&old_filter)?` returns Ok, then `result` is returned:
\* socket.rs 380-383
RestoreOk ==
    /\ pc = "restore"
    /\ restore' = "ok"
    /\ kfilter' \in set_filter(old_filter)
    /\ outcome' = result
    /\ pc' = "done"
    /\ UNCHANGED <<pure, ogf, ocf, command, timeout0, timeout, opcode, old_filter, attempt, retries,
                   sent, pkt, response, result, nwaits, nrecvs, installed, polled,
                   filter_before, cause, last_set, last_get>>

\* set_filter(&old_filter) fails: its error is returned in place of `result`
RestoreErr(e) ==
    /\ pc = "restore"
    /\ restore' = "err"
    /\ outcome' = Err(e)
    /\ pc' = "done"
    /\ UNCHANGED <<pure, kfilter, ogf, ocf, command, timeout0, timeout, opcode, old_filter, attempt,
                   retries, sent, pkt, response, result, nwaits, nrecvs, installed,
                   polled, filter_before, cause, last_set, last_get>>

\* the caller takes the result; the socket is idle again
Return ==
    /\ pc = "done"
    /\ pc' = "idle"
    /\ ogf' = 0 /\ ocf' = 0 /\ command' = <<>> /\ timeout0' = 0 /\ timeout' = 0
    /\ opcode' = 0
    /\ old_filter' = NoFilter
    /\ attempt' = 0 /\ retries' = 0
    /\ sent' = <<>> /\ pkt' = <<>> /\ response' = NoResponse
    /\ result' = NoResult /\ outcome' = NoResult
    /\ nwaits' = 0 /\ nrecvs' = 0
    /\ installed' = FALSE /\ restore' = "none" /\ polled' = <<>>
    /\ filter_before' = NoFilter
    /\ cause' = "none"
    /\ UNCHANGED <<kfilter, last_set, last_get, pure>>

Next ==
    \/ \E f \in UserFilters : SetFilterOk(f)
    \/ \E f \in UserFilters : SetFilterErr(f)
    \/ GetFilterOk
    \/ \E g \in Ogfs, c \in Ocfs, param \in Params, t \in Timeouts : Call(g, c, param, t)
    \/ GetOldOk
    \/ \E e \in SockoptErrnos : GetOldErr(e)
    \/ SetNewOk
    \/ \E e \in SockoptErrnos : SetNewErr(e)
    \/ SendOk
    \/ \E e \in SendErrnos : SendErr(e)
    \/ SendPanic
    \/ LoopExhausted
    \/ LoopWait
    \/ LoopNoWait
    \/ \E e \in PollErrnos : PollInterrupted(e)
    \/ \E n \in {-1, 0}, e \in PollErrnos : PollFailed(n, e)
    \/ \E n \in {0, 1} : PollReady(n)
    \/ \E e \in RecvErrnos : RecvErr(e)
    \/ \E p \in Packets : Recv(p)
    \/ RestoreOk
    \/ \E e \in SockoptErrnos : RestoreErr(e)
    \/ Return

Spec == Init /\ [][Next]_vars

\* The socket used for send_req only, as write_class_of_dev does: the steps
\* of Next without the caller's own set_filter / get_filter, the request
\* being the one of write_class_of_dev.
ReqNext ==
    \/ \E param \in Params, t \in Timeouts :
          Call(OGF_HOST_CTL, OCF_WRITE_CLASS_OF_DEV, param, t)
    \/ GetOldOk
    \/ \E e \in SockoptErrnos : GetOldErr(e)
    \/ SetNewOk
    \/ \E e \in SockoptErrnos : SetNewErr(e)
    \/ SendOk
    \/ \E e \in SendErrnos : SendErr(e)
    \/ SendPanic
    \/ LoopExhausted
    \/ LoopWait
    \/ LoopNoWait
    \/ \E e \in PollErrnos : PollInterrupted(e)
    \/ \E n \in {-1, 0}, e \in PollErrnos : PollFailed(n, e)
    \/ \E n \in {0, 1} : PollReady(n)
    \/ \E e \in RecvErrnos : RecvErr(e)
    \/ \E p \in Packets : Recv(p)
    \/ RestoreOk
    \/ \E e \in SockoptErrnos : RestoreErr(e)
    \/ Return

\* a step of the send_req in progress, the hand-over of its result included
ReqStep == pc /= "idle" /\ ReqNext

\* The calling thread keeps running and every system call it makes returns:
\* a send_req in progress always takes its next step.  The caller is free
\* never to call again.
FairSpec == Init /\ [][ReqNext]_vars /\ WF_vars(ReqStep)

-----------------------------------------------------------------------------
(* filter.rs: an HciFilter in the caller's memory and the methods applied to it *)

\* arguments of the bit methods (u8): every index in range, the first ones
\* out of range and the largest u8
TypeOutOfRange == {32, 33, 255}
EventOutOfRange == {64, 65, 255}
TypeArgs == (0 .. 31) \cup TypeOutOfRange
EventArgs == (0 .. 63) \cup EventOutOfRange
\* arguments of the whole-mask setters and of set_opcode
TypeMasks == {{}, {HCI_EVENT_PKT}}
EventMasks == {{}, {EVT_CMD_COMPLETE, EVT_CMD_STATUS}}
FilterOpcodes == {0, cmd_opcode_pack(OGF_HOST_CTL, OCF_WRITE_CLASS_OF_DEV)}

\* one-bits of both masks together
Bits(f) == Cardinality(f.type_mask) + Cardinality(f.event_mask)

\* the filters the model follows: a bit method may add to at most MaxBits one-bits
Tracked(old, new) == new = old \/ Bits(new) <= MaxBits

\* the Result<()> of a bit method; the other methods return ()
Returned(r) == IF r.ok THEN "Ok" ELSE "InvalidInput"

Default ==
    /\ flt' = HciFilter_default
    /\ fop' = NoOp
    /\ UNCHANGED <<sockvars, pk, cv, sockopt>>

SetType(t) ==
    /\ fop' = Returned(set_type(flt, t))
    /\ flt' = set_type(flt, t).filter
    /\ Tracked(flt, set_type(flt, t).filter)
    /\ UNCHANGED <<sockvars, pk, cv, sockopt>>

UnsetType(t) ==
    /\ fop' = Returned(unset_type(flt, t))
    /\ flt' = unset_type(flt, t).filter
    /\ UNCHANGED <<sockvars, pk, cv, sockopt>>

SetEvent(e) ==
    /\ fop' = Returned(set_event(flt, e))
    /\ flt' = set_event(flt, e).filter
    /\ Tracked(flt, set_event(flt, e).filter)
    /\ UNCHANGED <<sockvars, pk, cv, sockopt>>

UnsetEvent(e) ==
    /\ fop' = Returned(unset_event(flt, e))
    /\ flt' = unset_event(flt, e).filter
    /\ UNCHANGED <<sockvars, pk, cv, sockopt>>

SetTypeMask(m) ==
    /\ flt' = set_type_mask(flt, m)
    /\ fop' = NoOp
    /\ UNCHANGED <<sockvars, pk, cv, sockopt>>

ClearTypeMask ==
    /\ flt' = clear_type_mask(flt)
    /\ fop' = NoOp
    /\ UNCHANGED <<sockvars, pk, cv, sockopt>>

SetEventMask(m) ==
    /\ flt' = set_event_mask(flt, m)
    /\ fop' = NoOp
    /\ UNCHANGED <<sockvars, pk, cv, sockopt>>

ClearEventMask ==
    /\ flt' = clear_event_mask(flt)
    /\ fop' = NoOp
    /\ UNCHANGED <<sockvars, pk, cv, sockopt>>

SetOpcode(op) ==
    /\ flt' = set_opcode(flt, op)
    /\ fop' = NoOp
    /\ UNCHANGED <<sockvars, pk, cv, sockopt>>

FilterNext ==
    \/ Default
    \/ \E t \in TypeArgs : SetType(t)
    \/ \E t \in TypeArgs : UnsetType(t)
    \/ \E e \in EventArgs : SetEvent(e)
    \/ \E e \in EventArgs : UnsetEvent(e)
    \/ \E m \in TypeMasks : SetTypeMask(m)
    \/ ClearTypeMask
    \/ \E m \in EventMasks : SetEventMask(m)
    \/ ClearEventMask
    \/ \E op \in FilterOpcodes : SetOpcode(op)

SpecFilter == Init /\ [][FilterNext]_vars

-----------------------------------------------------------------------------
(* socket.rs: the option value get_filter and set_filter hand to the kernel *)

LayoutFilters ==
    [type_mask : SUBSET {0, HCI_EVENT_PKT, 31},
     event_mask : SUBSET {0, EVT_CMD_COMPLETE, EVT_CMD_STATUS, 63},
     opcode : FilterOpcodes]

LayoutInit ==
    /\ SockInit
    /\ flt \in LayoutFilters /\ fop = NoOp
    /\ pk = NoPack
    /\ cv = NoCodec
    /\ sockopt = NoSockopt

\* the optlen of a socket-option call on the HciFilter f and the structure
\* the call is about, for a build whose u64 alignment is u64_align
option_value(call, f, u64_align) ==
    [call    |-> call,
     optlen  |-> size_of(HciFilter_fields(u64_align)),
     offsets |-> [k \in 1..3 |-> offset_of(HciFilter_fields(u64_align), k)],
     image   |-> memory_image(f, HciFilter_fields(u64_align))]

\* get_filter: getsockopt(.., addr_of_mut!(filter), &mut filter_size)
GetFilterCall(u64_align) ==
    /\ sockopt.call = "none"
    /\ sockopt' = option_value("getsockopt", flt, u64_align)
    /\ UNCHANGED <<sockvars, flt, fop, pk, cv>>

\* set_filter: setsockopt(.., filter_size)
SetFilterCall(u64_align) ==
    /\ sockopt.call = "none"
    /\ sockopt' = option_value("setsockopt", flt, u64_align)
    /\ UNCHANGED <<sockvars, flt, fop, pk, cv>>

LayoutNext ==
    \/ \E a \in U64Aligns : GetFilterCall(a)
    \/ \E a \in U64Aligns : SetFilterCall(a)

SpecLayout == LayoutInit /\ [][LayoutNext]_vars

-----------------------------------------------------------------------------
(* socket.rs: cmd_opcode_pack applied to one pair of arguments *)

\* ogf and ocf are u16: every group and feature of the HCI opcode layout and
\* values beyond it
Groups == (0 .. 63) \cup {64, 65, 1023, 65535}
Features == (0 .. 1023) \cup {1024, 1025, 2047, 65535}

PackInit ==
    /\ SockInit
    /\ flt = HciFilter_default /\ fop = NoOp
    /\ pk \in [group : Groups, feature : Features, opcode : {-1}]
    /\ cv = NoCodec
    /\ sockopt = NoSockopt

Pack ==
    /\ pk.opcode = -1
    /\ pk' = [pk EXCEPT !.opcode = cmd_opcode_pack(pk.group, pk.feature)]
    /\ UNCHANGED <<sockvars, flt, fop, cv, sockopt>>

PackNext == Pack

SpecPack == PackInit /\ [][PackNext]_vars

-----------------------------------------------------------------------------
(* io.rs: an integer written with write_to and read back with read_from *)

Widths == {1, 2, 4, 8}
Limbs == {0, 1, 255, 256, 4660, 65535}
\* every u8 and u16; u32 and u64 with each limb drawn from Limbs
Values(width) ==
    IF width = 1 THEN {<<v>> : v \in 0 .. 255}
    ELSE IF width = 2 THEN {<<v>> : v \in 0 .. 65535}
    ELSE [1 .. (width \div 2) -> Limbs]

CodecInit ==
    /\ SockInit
    /\ flt = HciFilter_default /\ fop = NoOp
    /\ pk = NoPack
    /\ \E width \in Widths : \E value \in Values(width) :
          cv = [width |-> width, value |-> value, bytes |-> <<>>, back |-> <<>>, size |-> -1]
    /\ sockopt = NoSockopt

\* value.bytes(): write_to into an empty Vec
Write ==
    /\ cv.width > 0 /\ cv.bytes = <<>>
    /\ cv' = [cv EXCEPT !.bytes = write_to(cv.width, cv.value)]
    /\ UNCHANGED <<sockvars, flt, fop, pk, sockopt>>

\* read_from on the bytes written
Read ==
    /\ cv.bytes /= <<>> /\ cv.size = -1
    /\ cv' = [cv EXCEPT !.back = read_from(cv.bytes, cv.width).val,
                         !.size = read_from(cv.bytes, cv.width).size]
    /\ UNCHANGED <<sockvars, flt, fop, pk, sockopt>>

CodecNext == Write \/ Read

SpecCodec == CodecInit /\ [][CodecNext]_vars

-----------------------------------------------------------------------------
(* Notions the claims are stated in *)

\* the opcode of a request as the specification writes it:
\* (feature & 0x03FF) | (group << 10), a 16-bit value
PackedOpcode == ((ocf % 1024) + ogf * 1024) % 65536

\* a 16-bit value at two bytes of a packet, low byte first (p[i] is byte i-1)
LE16(p, i) == p[i] + 256 * p[i + 1]

\* a packet that holds every fixed field of a command-complete event
FullCmdComplete(p) == Len(p) >= 6 /\ p[2] = 14

\* a packet that holds every fixed field of a command-status event
FullCmdStatus(p) == Len(p) >= 7 /\ p[2] = 15

\* fewer bytes than the prefix and header, or than the fixed body of the event
TooShort(p) ==
    \/ Len(p) < 3
    \/ p[2] = 14 /\ Len(p) < 6
    \/ p[2] = 15 /\ Len(p) < 7

Received == response.kind /= "None"

-----------------------------------------------------------------------------
(* C1 *)

\* C1: once send_req has read the old filter and installed the narrowed one,
\* it calls set_filter with the saved filter before it ends, whatever the
\* outcome.
C1_RestoredOnEveryExit ==
    (pc = "done" /\ installed) => restore /= "none"

-----------------------------------------------------------------------------
(* C2 *)

\* C2: if the first receive yields a well-formed command-complete packet with
\* the request's packed opcode, send_req (its restore call not failing)
\* returns Ok after that single receive with exactly the bytes after the
\* opcode field, and the kernel filter is the one in effect before the call.
C2_FirstCmdCompleteSucceeds ==
    (/\ pc = "done"
     /\ nrecvs = 1
     /\ Received
     /\ FullCmdComplete(pkt)
     /\ LE16(pkt, 5) = PackedOpcode
     /\ restore /= "err")
    => /\ outcome = Ok(SubSeq(pkt, 7, Len(pkt)))
       /\ kfilter = filter_before

-----------------------------------------------------------------------------
(* C3 *)

\* C3: when no step fails, every wait finds the socket readable and no
\* received event matches the request, send_req makes exactly 10 receives,
\* returns a timeout error, and the original filter is back in effect.
C3_NoMatchTimesOutAfterTen ==
    (/\ pc = "done"
     /\ cause \notin {"get_filter", "set_filter", "send", "poll_error",
                      "poll_timeout", "recv", "decode", "cmd_complete", "cmd_status"}
     /\ restore /= "err")
    => /\ nrecvs = 10
       /\ outcome = Err("ETIMEDOUT")
       /\ kfilter = filter_before

-----------------------------------------------------------------------------
(* C4 *)

\* C4 as claimed: a readiness wait that elapses with no event ready does not
\* end the loop; the closure's timeout error exists only after the 10th
\* attempt has passed.
C4_TimeoutOnlyAfterTenAttempts ==
    (result.kind = "Err" /\ result.errno = "ETIMEDOUT") => attempt = 10

\* C4 amended: when the readiness wait of an attempt elapses with no event
\* ready (poll returns 0), the polling loop ends at that attempt with a
\* timeout error: that attempt makes no receive, no later attempt starts, and
\* send_req, after its restore call, returns an error, the timeout error
\* unless the restore call failed.
C4_WaitTimeoutEndsLoop ==
    (polled = <<0>>)
    => /\ pc \in {"restore", "done"}
       /\ result = Err("ETIMEDOUT")
       /\ attempt < MaxAttempts
       /\ nrecvs = attempt
       /\ nwaits = attempt + 1
       /\ pc = "done" => /\ restore /= "none"
                         /\ outcome.kind = "Err"
                         /\ restore = "ok" => outcome = Err("ETIMEDOUT")

\* a wait has elapsed on the third attempt and send_req has returned
C4_Witness ==
    /\ polled = <<0>>
    /\ pc = "done"
    /\ attempt = 2
    /\ outcome = Err("ETIMEDOUT")

-----------------------------------------------------------------------------
(* C5 *)

\* C5: decoding a receive of zero bytes, or of fewer bytes than the prefix,
\* the header and the fixed body fields need, yields an error: no panic and
\* no event.
C5_ShortPacketIsError ==
    (Received /\ TooShort(pkt)) => response.kind = "Err"

-----------------------------------------------------------------------------
(* C6 *)

-----------------------------------------------------------------------------
(* C7 *)

\* C7: after set_filter(f) returned Ok the kernel filter of the socket is f,
\* and a get_filter() that follows returns f.
C7_SetThenGetRoundTrip ==
    /\ last_set /= NoFilter => kfilter = last_set
    /\ (last_set /= NoFilter /\ last_get /= NoFilter) => last_get = last_set

-----------------------------------------------------------------------------
(* C8 *)

\* C8: send_req ends with Ok or with an error, and with Ok only if the old
\* filter was read, the new filter installed, the command sent, a packet
\* holding a complete command-complete event with the request's opcode
\* received and decoded, and the old filter restored.
C8_OkOnlyIfEveryStepSucceeded ==
    pc = "done"
    => /\ outcome.kind \in {"Ok", "Err"}
       /\ outcome.kind = "Ok"
          => /\ installed
             /\ sent /= <<>>
             /\ restore = "ok"
             /\ FullCmdComplete(pkt)
             /\ LE16(pkt, 5) = PackedOpcode

-----------------------------------------------------------------------------
(* C9 *)

\* C9: a packet whose second byte is 0x0E decodes to a CmdComplete body, with
\* ncmd = byte 3 and opcode = bytes 4..5 little-endian when the packet holds
\* them; one whose second byte is 0x0F decodes to a CmdStatus body, with
\* status = byte 3, ncmd = byte 4 and opcode = bytes 5..6 little-endian when
\* it holds them; any other event code gives Unsupported; and the first byte
\* has no influence on the decoded event.
C9_EventDecoding ==
    (Received /\ Len(pkt) >= 2)
    => /\ pkt[2] = 14 => response.tag = "CmdComplete"
       /\ FullCmdComplete(pkt) => /\ response.ncmd = pkt[4]
                                  /\ response.opcode = LE16(pkt, 5)
       /\ pkt[2] = 15 => response.tag = "CmdStatus"
       /\ FullCmdStatus(pkt) => /\ response.status = pkt[4]
                                /\ response.ncmd = pkt[5]
                                /\ response.opcode = LE16(pkt, 6)
       /\ pkt[2] \notin {14, 15} => response.tag = "Unsupported"
       /\ \A x \in Prefixes : Event_read_from(<<x>> \o Tail(pkt)) = response

\* a complete command-complete packet with opcode 0x0C24 and a return
\* parameter has been decoded
C9_Witness ==
    /\ Received
    /\ FullCmdComplete(pkt)
    /\ Len(pkt) = 7
    /\ pkt[5] = 36 /\ pkt[6] = 12
    /\ response.opcode = 3108
    /\ response.ncmd = 1

-----------------------------------------------------------------------------
(* C10 *)

C11_OutOfRangeFailsAndKeepsFilter ==
    [][ /\ \A t \in TypeOutOfRange :
             (SetType(t) \/ UnsetType(t))
                 => (fop' = "InvalidInput" /\ get_type_mask(flt') = get_type_mask(flt)
                                           /\ get_event_mask(flt') = get_event_mask(flt)
                                           /\ get_opcode(flt') = get_opcode(flt))
        /\ \A e \in EventOutOfRange :
             (SetEvent(e) \/ UnsetEvent(e))
                 => (fop' = "InvalidInput" /\ get_type_mask(flt') = get_type_mask(flt)
                                           /\ get_event_mask(flt') = get_event_mask(flt)
                                           /\ get_opcode(flt') = get_opcode(flt)) ]_vars

\* a bit method has failed on a filter whose three fields are all non-zero
C11_Witness ==
    /\ fop = "InvalidInput"
    /\ get_type_mask(flt) /= {} /\ get_event_mask(flt) /= {} /\ get_opcode(flt) /= 0

\* C12: on a zeroed filter set_type(t), t in 0..31, leaves get_type_mask()
\* with bit t as its only one-bit (the number 2^t), and unset_type(t) applied
\* to that filter leaves no one-bit (0); the same for set_event, unset_event
\* and get_event_mask with e in 0..63.
C12_SetThenUnsetOneBit ==
    [][ /\ flt = HciFilter_default =>
             /\ \A t \in 0 .. 31 :
                    SetType(t) => (fop' = "Ok" /\ get_type_mask(flt') = {t})
             /\ \A e \in 0 .. 63 :
                    SetEvent(e) => (fop' = "Ok" /\ get_event_mask(flt') = {e})
        /\ \A t \in get_type_mask(flt) :
             (flt = set_type(HciFilter_default, t).filter /\ UnsetType(t))
                 => (fop' = "Ok" /\ get_type_mask(flt') = {})
        /\ \A e \in get_event_mask(flt) :
             (flt = set_event(HciFilter_default, e).filter /\ UnsetEvent(e))
                 => (fop' = "Ok" /\ get_event_mask(flt') = {}) ]_vars

\* a bit method has returned Ok and get_type_mask() has bit 31 as its only
\* one-bit, the rest of the filter being zero: set_type(31) on the zeroed filter
C12_Witness ==
    /\ fop = "Ok"
    /\ get_type_mask(flt) = {31}
    /\ get_event_mask(flt) = {} /\ get_opcode(flt) = 0

\* C13: the packed opcode is (feature & 0x03FF) | (group << 10) in 16 bits;
\* for group <= 63 and feature <= 1023 the pair is recovered from the opcode
\* (so distinct pairs give distinct opcodes); the bits of feature above the
\* low ten do not change the opcode.
C13_PackedOpcodeLayout ==
    pk.opcode /= -1 =>
        /\ pk.opcode = (pk.feature % 1024) + ((pk.group * 1024) % 65536)
        /\ (pk.group <= 63 /\ pk.feature <= 1023)
               => (pk.opcode \div 1024 = pk.group /\ pk.opcode % 1024 = pk.feature)
        /\ pk.opcode = cmd_opcode_pack(pk.group, pk.feature % 1024)

\* group 1 with feature 0x0401 has been packed: the opcode of group 1, feature 1
C13_Witness ==
    /\ pk.group = 1 /\ pk.feature = 1025
    /\ pk.opcode = cmd_opcode_pack(1, 1)

\* C14: for u8, u16, u32 and u64, read_from on the bytes that write_to
\* produced gives the value written and a byte count equal to the width.
C14_WriteThenReadRoundTrip ==
    cv.size /= -1 => (cv.back = cv.value /\ cv.size = cv.width)

\* a u64 with four different limbs has been written as 8 bytes and read back
C14_Witness ==
    /\ cv.width = 8 /\ cv.value = <<4660, 65535, 1, 256>>
    /\ Len(cv.bytes) = 8 /\ cv.size /= -1

\* C15: the option value get_filter and set_filter hand to the kernel is 14
\* bytes with no padding: type_mask at offset 0, event_mask at offset 4,
\* opcode at offset 12, and the length passed is 14.
C15_FourteenBytesNoPadding ==
    sockopt.call /= "none" =>
        /\ sockopt.optlen = 14
        /\ sockopt.offsets = <<0, 4, 12>>
        /\ \A i \in 1..Len(sockopt.image) : sockopt.image[i] /= Padding

\* C16: in the readiness wait a poll() that fails with EAGAIN or EINTR is
\* followed by another poll() and is not what the wait returns; a poll() that
\* fails with another errno makes the wait return that errno; a poll() that
\* returns 0 makes the wait return ETIMEDOUT.
C16_WaitRetriesAndErrors ==
    /\ (Len(polled) = 2 /\ polled[2] \in {"EAGAIN", "EINTR"})
           => (pc = "poll" /\ result = NoResult /\ cause = "none")
    /\ cause = "poll_error"
           => (Len(polled) = 2 /\ polled[1] < 0 /\ result = Err(polled[2]))
    /\ cause = "poll_timeout"
           => (polled = <<0>> /\ result = Err("ETIMEDOUT"))
    /\ (result.kind = "Err" /\ result.errno \in {"EAGAIN", "EINTR"})
           => cause \notin {"poll_error", "poll_timeout"}

\* a wait was interrupted, polled again and then failed with ENOMEM
C16_Witness ==
    /\ cause = "poll_error"
    /\ retries >= 1
    /\ result = Err("ENOMEM")

\* C17: in a send_req called with timeout <= 0 no attempt makes a readiness
\* wait: every attempt started has gone straight to its receive.
C17_NonPositiveTimeoutNeverWaits ==
    (pc /= "idle" /\ timeout0 <= 0) =>
        /\ nwaits = 0
        /\ pc /= "poll"
        /\ polled = <<>>
        /\ pc \in {"loop", "recv"} => nrecvs = attempt

\* a send_req with a negative timeout has made its ten receives
C17_Witness ==
    /\ timeout0 < 0
    /\ nrecvs = MaxAttempts
    /\ pc = "done"

\* C18: in a send_req called with T > 0, attempt i (from 1) waits exactly
\* when T - 10*(i-1) > 0, with that value as the timeout of the wait; after
\* a waited attempt the remaining timeout is max(0, previous - 10): it is
\* never negative, and once it is 0 no later attempt waits.
C18_TimeoutSchedule ==
    (pc /= "idle" /\ timeout0 > 0) =>
        LET started == IF pc \in {"poll", "recv"} THEN attempt + 1 ELSE attempt
            due == {i \in 1..started : timeout0 - 10 * (i - 1) > 0}
            remaining(k) == IF timeout0 - 10 * k > 0 THEN timeout0 - 10 * k ELSE 0
        IN /\ timeout >= 0
           /\ pc \in {"loop", "poll", "recv"} => nwaits = Cardinality(due)
           /\ pc = "poll" => (timeout = timeout0 - 10 * attempt /\ timeout > 0)
           /\ pc = "loop" => timeout = remaining(attempt)
           /\ pc = "recv" => timeout = remaining(attempt + 1)

\* the remaining timeout has reached 0 after at least two waits and a later
\* attempt is at its receive without having waited
C18_Witness ==
    /\ timeout0 > 0 /\ timeout = 0
    /\ pc = "recv"
    /\ nwaits >= 2 /\ attempt >= nwaits

\* C19 (order): the old filter is read before the new one is installed, the
\* command is sent after that, waits and receives come after the send and
\* the restore after them.
C19_Order ==
    /\ installed => old_filter /= NoFilter
    /\ pc \in {"send", "loop", "poll", "recv"} => (installed /\ restore = "none")
    /\ pc \in {"loop", "poll", "recv"} => sent /= <<>>
    /\ (nwaits > 0 \/ nrecvs > 0) => sent /= <<>>
    /\ restore /= "none" => (pc = "done" /\ sent /= <<>>)

\* C19: the steps of send_req come in the order read old filter, install
\* new filter, send, waits and receives, restore; and when the command is
\* sent and at every receive the filter on the socket has type mask {4},
\* event mask {14, 15} and the packed opcode of the request.
C19_OrderAndInstalledFilter ==
    /\ C19_Order
    /\ pc \in {"send", "recv"}
           => kfilter = [type_mask |-> {4}, event_mask |-> {14, 15}, opcode |-> PackedOpcode]

C21_SuccessOnlyOnOpcodeInPacket ==
    outcome.kind = "Ok" =>
        /\ FullCmdComplete(pkt)
        /\ LE16(pkt, 5) = PackedOpcode

====
